---- MODULE Spec2Model ----
(***************************************************************************)
(* Model of Scripts/tuist_generate.py: the phase reporter that runs        *)
(* `tuist generate` as a child process, mirrors every line of its output   *)
(* into a temporary log, classifies the lines, prints condensed            *)
(* notifications (or echoes the raw lines in verbose mode) and ends with   *)
(* a 'done' summary or a 'failed' line followed by the log dump.           *)
(*                                                                         *)
(* Text is modelled by TLA+ strings; the string functions of the code      *)
(* (strip, split, startswith, in, re.match) are computed character by      *)
(* character.  Optional values (None | value) are sequences of length      *)
(* at most one.                                                            *)
(***************************************************************************)
EXTENDS Integers, Sequences, FiniteSets, TLC

VARIABLES
    verbose,            \* args.verbose
    stream,             \* which of the two families of child output is explored
    pc,                 \* position of main(): start, read, echo, classify,
                        \* report, dump, unlink, exit
    log_exists,         \* the temporary log file exists on disk
    log,                \* lines written to the temporary log, in order
    delivered,          \* lines the child has delivered on its output so far
    out,                \* what reached the reporter's standard output
    child,              \* unspawned, running, terminated, exited
    exit_code,          \* proc.wait()'s result (optional)
    elapsed,            \* measured elapsed time in microseconds (optional)
    ret,                \* the reporter's exit status (optional)
    broken,             \* the write that raised BrokenPipeError ("" if none)
    line,               \* the line being processed by the loop body
    workspace,          \* optional
    time_taken,         \* optional
    project_names,
    cached_targets,
    printed,
    collecting_cached,
    fs_dirs,            \* create_module.py: the directories under the modules root
    fs_files,           \* create_module.py: the files under it, path |-> content
    sc_result           \* create_module.py: outcome of the last invocation (optional)

vars == <<fs_dirs, fs_files, sc_result, verbose, stream, pc, log_exists, log, delivered, out, child, exit_code, elapsed,
          ret, broken, line, workspace, time_taken, project_names, cached_targets,
          printed, collecting_cached>>

scaffold_state == <<fs_dirs, fs_files, sc_result>>

reporter_state == <<verbose, stream, pc, log_exists, log, delivered, out, child,
                    exit_code, elapsed, ret, broken, line, workspace, time_taken,
                    project_names, cached_targets, printed, collecting_cached>>

parse_state == <<workspace, time_taken, project_names, cached_targets, printed,
                 collecting_cached>>

(***************************************************************************)
(* Bounds and inputs.                                                      *)
(***************************************************************************)
\* Two families of child output are explored: up to MaxLines lines drawn from
\* all of ChildLines, and up to MaxMarkerLines lines drawn from the recognised
\* lines alone (longer streams over fewer lines).
MaxLines == 3

MaxMarkerLines == 4

\* Lines the child may deliver, each ending with its newline.
ChildLines ==
    { "\n",
      "Loading and constructing the graph\n",
      "Using cache binaries for the following targets: A, B\n",
      "C D,\n",
      ",x, ,\n",
      "Generating workspace MyApp\n",
      "Generating workspace  Other App\n",
      "Generating project Core\n",
      "Generating project Loading and constructing the graph\n",
      "Total time taken: 4.2s\n",
      "  Resolving dependencies\n",
      "Using cache binaries for the following targets: Loading and constructing the graph\n" }

MarkerLines ==
    { "Loading and constructing the graph\n",
      "Using cache binaries for the following targets: A, B\n",
      "Generating workspace MyApp\n",
      "Generating project Core\n",
      "Total time taken: 4.2s\n" }

\* Statuses the child may terminate with.
ChildStatuses == {0, 3}

\* Measured elapsed times, in microseconds: one per tier of _format_duration.
ElapsedSamples == {500, 1234567, 12345678}

(***************************************************************************)
(* String functions.                                                       *)
(***************************************************************************)
CharAt(s, i) == SubSeq(s, i, i)

IsSpace(c) == c \in {" ", "\t", "\n", "\r"}

StartsWith(s, p) == Len(s) >= Len(p) /\ SubSeq(s, 1, Len(p)) = p

Contains(s, p) ==
    \E i \in 1..(Len(s) - Len(p) + 1) : SubSeq(s, i, i + Len(p) - 1) = p

RECURSIVE LStripChars(_, _)
LStripChars(s, cs) ==
    IF s # "" /\ CharAt(s, 1) \in cs
    THEN LStripChars(SubSeq(s, 2, Len(s)), cs)
    ELSE s

RECURSIVE RStripChars(_, _)
RStripChars(s, cs) ==
    IF s # "" /\ CharAt(s, Len(s)) \in cs
    THEN RStripChars(SubSeq(s, 1, Len(s) - 1), cs)
    ELSE s

\* str.strip(): leading and trailing whitespace removed.
Strip(s) == RStripChars(LStripChars(s, {" ", "\t", "\n", "\r"}), {" ", "\t", "\n", "\r"})

\* Variant of StripCommas that removes trailing commas only.
StripCommasRight(t) == RStripChars(t, {","})

\* token.strip(","): leading and trailing commas removed.
StripCommas(t) == RStripChars(LStripChars(t, {","}), {","})

\* str.split(): the maximal runs of non-whitespace characters, in order.
RECURSIVE SplitFrom(_, _, _)
SplitFrom(s, i, cur) ==
    IF i > Len(s)
    THEN (IF cur = "" THEN <<>> ELSE <<cur>>)
    ELSE IF IsSpace(CharAt(s, i))
         THEN (IF cur = "" THEN SplitFrom(s, i + 1, "")
                           ELSE <<cur>> \o SplitFrom(s, i + 1, ""))
         ELSE SplitFrom(s, i + 1, cur \o CharAt(s, i))

Split(s) == SplitFrom(s, 1, "")

\* [token.strip(",") for token in s.split() if token.strip(",")]
TargetNames(s) ==
    LET toks == Split(s)
        bare == [i \in 1..Len(toks) |-> StripCommas(toks[i])]
    IN  SelectSeq(bare, LAMBDA t : t # "")

\* s.split(":", 1)[1]: what follows the first colon of s.
AfterColon(s) ==
    LET k == CHOOSE i \in 1..Len(s) :
                 /\ CharAt(s, i) = ":"
                 /\ \A j \in 1..(i - 1) : CharAt(s, j) # ":"
    IN  SubSeq(s, k + 1, Len(s))

\* re.match(r"^<prefix>(.+)$", s): the optional capture group.
MatchAfter(s, prefix) ==
    IF StartsWith(s, prefix) /\ Len(s) > Len(prefix)
    THEN <<SubSeq(s, Len(prefix) + 1, Len(s))>>
    ELSE <<>>

\* re.match(r"^<prefix>\s*(.+)$", s): \s* is greedy but gives back one
\* character when nothing else is left for (.+).
MatchAfterSpaces(s, prefix) ==
    IF StartsWith(s, prefix) /\ Len(s) > Len(prefix)
    THEN LET rest == SubSeq(s, Len(prefix) + 1, Len(s))
             tail == LStripChars(rest, {" ", "\t", "\n", "\r"})
         IN  IF tail # "" THEN <<tail>> ELSE <<CharAt(rest, Len(rest))>>
    ELSE <<>>

RECURSIVE Concat(_)
Concat(ls) == IF ls = <<>> THEN "" ELSE Head(ls) \o Concat(Tail(ls))

RECURSIVE JoinComma(_)
JoinComma(xs) ==
    IF Len(xs) = 0 THEN ""
    ELSE IF Len(xs) = 1 THEN xs[1]
    ELSE xs[1] \o ", " \o JoinComma(Tail(xs))

(***************************************************************************)
(* The recognised markers and the notification texts.                      *)
(***************************************************************************)
GraphMarker     == "Loading and constructing the graph"
CachePrefix     == "Using cache binaries for the following targets:"
WorkspacePrefix == "Generating workspace "
ProjectPrefix   == "Generating project "
TimePrefix      == "Total time taken:"

\* The texts are the code's, written in ASCII: the leading refresh emoji of
\* every notification is left out, the ellipsis is "..." and the arrow "->".
Tag == "tuist generate: "

StartNote           == Tag \o "start"
GraphNote           == Tag \o "graph..."
CacheNote           == Tag \o "cache..."
ProjectsNote        == Tag \o "projects..."
WorkspaceNote(name) == Tag \o "workspace " \o name
FailedNote(code)    == Tag \o "failed (exit " \o ToString(code) \o ")"

\* An entry of standard output: a line printed by _safe_print, a raw line
\* echoed in verbose mode, or the dump of the log.
Note(text) == [kind |-> "note", text |-> text]
Echo(text) == [kind |-> "echo", text |-> text]
Dump(text) == [kind |-> "dump", text |-> text]

(***************************************************************************)
(* _format_duration, on microseconds.                                      *)
(***************************************************************************)
Rounded(us, unit) == (2 * us + unit) \div (2 * unit)

TwoDigits(n) == IF n < 10 THEN "0" \o ToString(n) ELSE ToString(n)

\* Variant of format_duration with the milliseconds tier for every value.
format_duration_ms(us) ==
    LET t == Rounded(us, 100)
    IN  ToString(t \div 10) \o "." \o ToString(t % 10) \o "ms"

format_duration(us) ==
    IF us < 1000000
    THEN LET t == Rounded(us, 100)
         IN  ToString(t \div 10) \o "." \o ToString(t % 10) \o "ms"
    ELSE IF us < 10000000
    THEN LET c == Rounded(us, 10000)
         IN  ToString(c \div 100) \o "." \o TwoDigits(c % 100) \o "s"
    ELSE LET d == Rounded(us, 100000)
         IN  ToString(d \div 10) \o "." \o ToString(d % 10) \o "s"

\* Variant of DurationStr that always reports the measured time.
DurationStrMeasured == format_duration(elapsed[1])

\* Line 159: time_taken or _format_duration(elapsed).
DurationStr ==
    IF time_taken # <<>> /\ time_taken[1] # ""
    THEN time_taken[1]
    ELSE format_duration(elapsed[1])

\* extras_str, workspace_str and the 'done' line of lines 160-169.
DoneNote ==
    LET duration_str == DurationStr
        extras == (IF Len(project_names) > 0
                   THEN <<"projects=" \o ToString(Len(project_names))>> ELSE <<>>)
                  \o
                  (IF Len(cached_targets) > 0
                   THEN <<"cached=" \o ToString(Len(cached_targets))>> ELSE <<>>)
        extras_str == IF Len(extras) > 0 THEN " [" \o JoinComma(extras) \o "]" ELSE ""
        workspace_str == IF workspace # <<>> /\ workspace[1] # ""
                         THEN " -> " \o workspace[1] ELSE ""
    IN  Tag \o "done (" \o duration_str \o ")" \o extras_str \o workspace_str

(***************************************************************************)
(* Initial state: main() has parsed its arguments, initialised the parse   *)
(* state and created the temporary log (lines 41-61).                      *)
(***************************************************************************)
\* No file at all: the empty mapping from paths to contents.
NoFiles == [p \in {} |-> ""]

Init ==
    /\ fs_dirs = {}
    /\ fs_files = NoFiles
    /\ sc_result = <<>>
    /\ verbose \in BOOLEAN
    /\ stream \in {"mixed", "markers"}
    /\ pc = "start"
    /\ log_exists = TRUE
    /\ log = <<>>
    /\ delivered = <<>>
    /\ out = <<>>
    /\ child = "unspawned"
    /\ exit_code = <<>>
    /\ elapsed = <<>>
    /\ ret = <<>>
    /\ broken = ""
    /\ line = ""
    /\ workspace = <<>>
    /\ time_taken = <<>>
    /\ project_names = <<>>
    /\ cached_targets = <<>>
    /\ printed = {}
    /\ collecting_cached = FALSE

(***************************************************************************)
(* _safe_print(message): the line is printed and main() goes on to `next`, *)
(* or the write raises BrokenPipeError and SystemExit(0) ends the process  *)
(* where it stands.  `ok` is whether the reader of standard output is      *)
(* still there; `where` names the call.                                    *)
(***************************************************************************)
safe_print(message, ok, next, where) ==
    IF ok
    THEN /\ out' = Append(out, Note(message))
         /\ pc' = next
         /\ UNCHANGED <<ret, broken>>
    ELSE /\ out' = out
         /\ pc' = "exit"
         /\ ret' = <<0>>
         /\ broken' = where

\* No print on this path.
Silent(next) ==
    /\ pc' = next
    /\ UNCHANGED <<out, ret, broken>>

(***************************************************************************)
(* Lines 63-73: the 'start' notification, then the child is spawned.       *)
(***************************************************************************)
Start ==
    /\ pc = "start"
    /\ \E ok \in BOOLEAN :
         IF ~verbose
         THEN /\ safe_print(StartNote, ok, "read", "start")
              /\ child' = IF ok THEN "running" ELSE child
         ELSE /\ Silent("read")
              /\ child' = "running"
    /\ UNCHANGED <<scaffold_state, verbose, stream, log_exists, log, delivered, exit_code, elapsed, line,
                   parse_state>>

(***************************************************************************)
(* Lines 76-77: the child delivers its next line and the loop writes it    *)
(* to the log.                                                             *)
(***************************************************************************)
\* Variant of LogWrite that logs the stripped line instead of the raw one.
LogWriteStripped(l) == Append(log, Strip(l))

\* Line 77: log_file.write(line).
LogWrite(l) == Append(log, l)

\* What the child of this run may deliver.
StreamLines == IF stream = "mixed" THEN ChildLines ELSE MarkerLines

StreamLimit == IF stream = "mixed" THEN MaxLines ELSE MaxMarkerLines

ReadLine ==
    /\ pc = "read"
    /\ Len(delivered) < StreamLimit
    /\ \E l \in StreamLines :
         /\ delivered' = Append(delivered, l)
         /\ line' = l
         /\ log' = LogWrite(l)
    /\ pc' = IF verbose THEN "echo" ELSE "classify"
    /\ UNCHANGED <<scaffold_state, verbose, stream, log_exists, out, child, exit_code, elapsed, ret, broken,
                   parse_state>>

(***************************************************************************)
(* Lines 79-86: verbose mode echoes the raw line; on a broken pipe it      *)
(* closes the child's stream, terminates the child and returns 0.          *)
(***************************************************************************)
EchoLine ==
    /\ pc = "echo"
    /\ \E ok \in BOOLEAN :
         IF ok
         THEN /\ out' = Append(out, Echo(line))
              /\ pc' = "classify"
              /\ UNCHANGED <<child, ret, broken>>
         ELSE /\ out' = out
              /\ child' = "terminated"
              /\ pc' = "exit"
              /\ ret' = <<0>>
              /\ broken' = "echo"
    /\ UNCHANGED <<scaffold_state, verbose, stream, log_exists, log, delivered, exit_code, elapsed, line,
                   parse_state>>

(***************************************************************************)
(* Lines 88-143: the classifier, for the line at hand.                     *)
(***************************************************************************)
\* Variant of ShouldNotify without the one-time guard.
ShouldNotifyEveryTime(phase) == ~verbose

\* Variant of ShouldNotify that ignores the verbosity flag.
ShouldNotifyAlsoVerbose(phase) == phase \notin printed

\* The guard of a one-time phase notification (lines 94, 100, 135).
ShouldNotify(phase) == ~verbose /\ phase \notin printed

\* Variant of EndsAccumulation that knows the workspace announcement only.
EndsAccumulationWorkspaceOnly(stripped) == StartsWith(stripped, WorkspacePrefix)

\* The lines that end cache accumulation (lines 113-117).
EndsAccumulation(stripped) ==
    \/ StartsWith(stripped, WorkspacePrefix)
    \/ StartsWith(stripped, ProjectPrefix)
    \/ StartsWith(stripped, TimePrefix)

\* Variant of ClassifyBlank that skips the line without ending accumulation.
ClassifyBlankKeepsCollecting ==
    /\ Silent("read")
    /\ UNCHANGED parse_state

\* Lines 88-91: a blank line ends accumulation and is otherwise ignored.
ClassifyBlank ==
    /\ collecting_cached' = FALSE
    /\ Silent("read")
    /\ UNCHANGED <<workspace, time_taken, project_names, cached_targets, printed>>

\* Variant of ClassifyGraph without the `continue` of line 97: the line goes
\* on to the rules below and is tokenized when accumulation is active.
ClassifyGraphFallsThrough(ok) ==
    /\ IF ShouldNotify("graph")
       THEN /\ printed' = printed \cup {"graph"}
            /\ safe_print(GraphNote, ok, "read", "graph")
       ELSE /\ printed' = printed
            /\ Silent("read")
    /\ cached_targets' = IF collecting_cached
                         THEN cached_targets \o TargetNames(Strip(line))
                         ELSE cached_targets
    /\ UNCHANGED <<workspace, time_taken, project_names, collecting_cached>>

\* Lines 93-97.
ClassifyGraph(ok) ==
    /\ IF ShouldNotify("graph")
       THEN /\ printed' = printed \cup {"graph"}
            /\ safe_print(GraphNote, ok, "read", "graph")
       ELSE /\ printed' = printed
            /\ Silent("read")
    /\ UNCHANGED <<workspace, time_taken, project_names, cached_targets,
                   collecting_cached>>

\* Variant of ClassifyCache in which a trigger line starts the list afresh.
ClassifyCacheRestarts(stripped, ok) ==
    LET notify  == ShouldNotify("cache")
        reached == ~notify \/ ok
        suffix  == Strip(AfterColon(stripped))
    IN  /\ IF notify
           THEN /\ printed' = printed \cup {"cache"}
                /\ safe_print(CacheNote, ok, "read", "cache")
           ELSE /\ printed' = printed
                /\ Silent("read")
        /\ collecting_cached' = IF reached THEN TRUE ELSE collecting_cached
        /\ cached_targets' = IF reached THEN TargetNames(suffix) ELSE cached_targets
        /\ UNCHANGED <<workspace, time_taken, project_names>>

\* Lines 99-110: line 104 onwards is reached unless the print raised.
ClassifyCache(stripped, ok) ==
    LET notify  == ShouldNotify("cache")
        reached == ~notify \/ ok
        suffix  == Strip(AfterColon(stripped))
    IN  /\ IF notify
           THEN /\ printed' = printed \cup {"cache"}
                /\ safe_print(CacheNote, ok, "read", "cache")
           ELSE /\ printed' = printed
                /\ Silent("read")
        /\ collecting_cached' = IF reached THEN TRUE ELSE collecting_cached
        /\ cached_targets' = IF reached /\ suffix # ""
                             THEN cached_targets \o TargetNames(suffix)
                             ELSE cached_targets
        /\ UNCHANGED <<workspace, time_taken, project_names>>

\* Lines 119-123: a continuation line of the cached-target block.
ClassifyAccumulate(stripped) ==
    /\ cached_targets' = cached_targets \o TargetNames(stripped)
    /\ Silent("read")
    /\ UNCHANGED <<workspace, time_taken, project_names, printed, collecting_cached>>

\* Variant of ClassifyWorkspace that notifies once, as the other phases do.
ClassifyWorkspaceOnce(name, ok) ==
    /\ workspace' = <<Strip(name)>>
    /\ IF ShouldNotify("workspace")
       THEN /\ printed' = printed \cup {"workspace"}
            /\ safe_print(WorkspaceNote(Strip(name)), ok, "read", "workspace")
       ELSE /\ printed' = printed
            /\ Silent("read")
    /\ UNCHANGED <<time_taken, project_names, cached_targets>>

\* Lines 125-130.
ClassifyWorkspace(name, ok) ==
    /\ workspace' = <<Strip(name)>>
    /\ IF ~verbose
       THEN safe_print(WorkspaceNote(Strip(name)), ok, "read", "workspace")
       ELSE Silent("read")
    /\ UNCHANGED <<time_taken, project_names, cached_targets, printed>>

\* Variant of ClassifyProject that marks the phase as notified but leaves the
\* printing to a later time.
ClassifyProjectDeferred(name, ok) ==
    /\ project_names' = Append(project_names, Strip(name))
    /\ printed' = IF ShouldNotify("projects") THEN printed \cup {"projects"} ELSE printed
    /\ Silent("read")
    /\ UNCHANGED <<workspace, time_taken, cached_targets>>

\* Lines 132-138.
ClassifyProject(name, ok) ==
    /\ project_names' = Append(project_names, Strip(name))
    /\ IF ShouldNotify("projects")
       THEN /\ printed' = printed \cup {"projects"}
            /\ safe_print(ProjectsNote, ok, "read", "projects")
       ELSE /\ printed' = printed
            /\ Silent("read")
    /\ UNCHANGED <<workspace, time_taken, cached_targets>>

\* Variant of ClassifyTime that records the value in condensed mode only.
ClassifyTimeCondensedOnly(value) ==
    /\ time_taken' = IF verbose THEN time_taken ELSE <<Strip(value)>>
    /\ Silent("read")
    /\ UNCHANGED <<workspace, project_names, cached_targets, printed>>

\* Lines 140-143.
ClassifyTime(value) ==
    /\ time_taken' = <<Strip(value)>>
    /\ Silent("read")
    /\ UNCHANGED <<workspace, project_names, cached_targets, printed>>

\* Variant of ClassifyOther that takes the words of the line for target names.
ClassifyOtherAccumulates ==
    /\ cached_targets' = cached_targets \o TargetNames(Strip(line))
    /\ Silent("read")
    /\ UNCHANGED <<workspace, time_taken, project_names, printed>>

\* No rule matched: the loop goes on to the next line.
ClassifyOther ==
    /\ Silent("read")
    /\ UNCHANGED <<workspace, time_taken, project_names, cached_targets, printed>>

Classify ==
    /\ pc = "classify"
    /\ LET stripped == Strip(line)
       IN  \E ok \in BOOLEAN :
             IF stripped = "" THEN ClassifyBlank
             ELSE IF Contains(stripped, GraphMarker) THEN ClassifyGraph(ok)
             ELSE IF StartsWith(stripped, CachePrefix) THEN ClassifyCache(stripped, ok)
             ELSE IF collecting_cached /\ ~EndsAccumulation(stripped)
                  THEN ClassifyAccumulate(stripped)
             ELSE \* line 118 when collecting, then the three patterns
                  /\ collecting_cached' = FALSE
                  /\ LET workspace_match == MatchAfter(stripped, WorkspacePrefix)
                         project_match   == MatchAfter(stripped, ProjectPrefix)
                         time_match      == MatchAfterSpaces(stripped, TimePrefix)
                     IN  IF workspace_match # <<>>
                         THEN ClassifyWorkspace(workspace_match[1], ok)
                         ELSE IF project_match # <<>>
                         THEN ClassifyProject(project_match[1], ok)
                         ELSE IF time_match # <<>>
                         THEN ClassifyTime(time_match[1])
                         ELSE ClassifyOther
    /\ UNCHANGED <<scaffold_state, verbose, stream, log_exists, log, delivered, child, exit_code, elapsed,
                   line>>

(***************************************************************************)
(* Lines 145-147: the stream has ended; proc.wait() yields the child's     *)
(* status, the log file is closed and the elapsed time is taken.           *)
(***************************************************************************)
EndOfStream ==
    /\ pc = "read"
    /\ \E c \in ChildStatuses, e \in ElapsedSamples :
         /\ exit_code' = <<c>>
         /\ elapsed' = <<e>>
    /\ child' = "exited"
    /\ pc' = "report"
    /\ UNCHANGED <<scaffold_state, verbose, stream, log_exists, log, delivered, out, ret, broken, line,
                   parse_state>>

(***************************************************************************)
(* Lines 149-150: the 'failed' line of a non-zero status.                  *)
(***************************************************************************)
\* Variant of ReportFailed without the test of the status (line 149).
ReportFailedWhateverStatus ==
    /\ pc = "report"
    /\ \E ok \in BOOLEAN :
         safe_print(FailedNote(exit_code[1]), ok, "dump", "failed")
    /\ UNCHANGED <<scaffold_state, verbose, stream, log_exists, log, delivered, child, exit_code, elapsed,
                   line, parse_state>>

ReportFailed ==
    /\ pc = "report"
    /\ exit_code[1] # 0
    /\ \E ok \in BOOLEAN :
         safe_print(FailedNote(exit_code[1]), ok, "dump", "failed")
    /\ UNCHANGED <<scaffold_state, verbose, stream, log_exists, log, delivered, child, exit_code, elapsed,
                   line, parse_state>>

(***************************************************************************)
(* Lines 151-157: the log is written to standard output and removed        *)
(* (finally), also when the write raised BrokenPipeError.                  *)
(***************************************************************************)
\* Variant of DumpText that replays only the line processed last.
DumpTextLastLine == line

\* Line 152: log_path.read_text().
DumpText == Concat(log)

\* Variant of ReturnAfterDump that reports a generic failure status.
ReturnAfterDumpOne == <<1>>

\* Line 157: return exit_code.
ReturnAfterDump == exit_code

DumpLog ==
    /\ pc = "dump"
    /\ \E ok \in BOOLEAN :
         IF ok
         THEN /\ out' = Append(out, Dump(DumpText))
              /\ ret' = ReturnAfterDump
              /\ broken' = broken
         ELSE /\ out' = out
              /\ ret' = <<0>>
              /\ broken' = "dump"
    /\ log_exists' = FALSE
    /\ pc' = "exit"
    /\ UNCHANGED <<scaffold_state, verbose, stream, log, delivered, child, exit_code, elapsed, line,
                   parse_state>>

(***************************************************************************)
(* Lines 159-169: the 'done' summary of status 0.                          *)
(***************************************************************************)
ReportDone ==
    /\ pc = "report"
    /\ exit_code[1] = 0
    /\ \E ok \in BOOLEAN :
         safe_print(DoneNote, ok, "unlink", "done")
    /\ UNCHANGED <<scaffold_state, verbose, stream, log_exists, log, delivered, child, exit_code, elapsed,
                   line, parse_state>>

(***************************************************************************)
(* Lines 170-171: the log is removed and main() returns 0.                 *)
(***************************************************************************)
Finish ==
    /\ pc = "unlink"
    /\ log_exists' = FALSE
    /\ ret' = <<0>>
    /\ pc' = "exit"
    /\ UNCHANGED <<scaffold_state, verbose, stream, log, delivered, out, child, exit_code, elapsed, broken,
                   line, parse_state>>

Next ==
    \/ Start
    \/ ReadLine
    \/ EchoLine
    \/ Classify
    \/ EndOfStream
    \/ ReportFailed
    \/ DumpLog
    \/ ReportDone
    \/ Finish

Spec == Init /\ [][Next]_vars

(***************************************************************************)
(* Scripts/create_module.py: the module scaffolder.  Paths are relative to *)
(* MODULES_ROOT; the file system is the set of directories and the         *)
(* mapping from file paths to contents.                                    *)
(***************************************************************************)
\* LAYER_TO_FOLDER (lines 12-17).
LAYER_TO_FOLDER ==
    [feature |-> "Features", core |-> "Core", shared |-> "Shared", utility |-> "Utility"]

\* Values of --name tried.
NameArgs == {"Auth", " Net ", ""}

\* sync_modules._swift_identifier: the canonical identifier of a module
\* name.  It raises when the name cannot be normalised into one; the empty
\* name is the one such name tried.  The identifier itself is left opaque.
ValidName(module_name) == module_name # ""

SwiftIdentifier(module_name) == "<identifier of " \o module_name \o ">"

\* pathlib's `/`.
Join(dir, name) == IF name = "" THEN dir ELSE dir \o "/" \o name

\* Path.exists().
PathExists(path) == path \in fs_dirs \/ path \in DOMAIN fs_files

\* Variant of ModuleDirExists in which the check of line 114 never fires.
ModuleDirNeverExists(path) == FALSE

\* Line 114: module_dir.exists().
ModuleDirExists(path) == PathExists(path)

\* Lines 25-40.
render_project_swift(layer, module_name) ==
    "@preconcurrency import ProjectDescription\n"
    \o "@preconcurrency import ProjectInfraPlugin\n"
    \o "@preconcurrency import ProjectDescriptionHelpers\n"
    \o "\n"
    \o "let module = ModuleID." \o layer \o "(." \o SwiftIdentifier(module_name) \o ")\n"
    \o "\n"
    \o "let project = ProjectFactory.makeFeature(\n"
    \o "    module: module,\n"
    \o "    destinations: Destinations.iOS.union(Destinations.macOS),\n"
    \o "    product: .framework,\n"
    \o "    dependencies: [],\n"
    \o "    testDependencies: []\n"
    \o ")\n"

\* Lines 43-47.
render_interface_swift(module_name) ==
    "public protocol " \o module_name \o "Service {\n"
    \o "    func ping() -> String\n"
    \o "}\n"

\* Lines 50-58.
render_impl_swift(module_name) ==
    "import " \o module_name \o "Interface\n"
    \o "\n"
    \o "public final class " \o module_name \o "ServiceImpl: " \o module_name \o "Service {\n"
    \o "    public init() {}\n"
    \o "\n"
    \o "    public func ping() -> String { \"pong\" }\n"
    \o "}\n"

\* Lines 61-73.
render_testing_swift(module_name) ==
    "import " \o module_name \o "Interface\n"
    \o "\n"
    \o "public final class Mock" \o module_name \o "Service: " \o module_name \o "Service {\n"
    \o "    public var pingResult: String\n"
    \o "\n"
    \o "    public init(pingResult: String = \"mock\") {\n"
    \o "        self.pingResult = pingResult\n"
    \o "    }\n"
    \o "\n"
    \o "    public func ping() -> String { pingResult }\n"
    \o "}\n"

\* Lines 76-85.
render_tests_swift(module_name) ==
    "import XCTest\n"
    \o "import " \o module_name \o "\n"
    \o "\n"
    \o "final class " \o module_name \o "Tests: XCTestCase {\n"
    \o "    func testPing() {\n"
    \o "        XCTAssertEqual(" \o module_name \o "ServiceImpl().ping(), \"pong\")\n"
    \o "    }\n"
    \o "}\n"

\* Lines 20-22, the content written: content.rstrip() + "\n".
Written(content) == RStripChars(content, {" ", "\t", "\n", "\r"}) \o "\n"

\* Lines 125-129: the five files seeded into module_dir.
SeedFiles(layer, module_name, module_dir) ==
    LET interface == Join(module_dir, "Interface")
        sources   == Join(module_dir, "Sources")
        testing   == Join(module_dir, "Testing")
        tests     == Join(module_dir, "Tests")
    IN  (Join(module_dir, "Project.swift")
            :> Written(render_project_swift(layer, module_name)))
        @@ (Join(interface, module_name \o "Service.swift")
            :> Written(render_interface_swift(module_name)))
        @@ (Join(sources, module_name \o "ServiceImpl.swift")
            :> Written(render_impl_swift(module_name)))
        @@ (Join(testing, "Mock" \o module_name \o "Service.swift")
            :> Written(render_testing_swift(module_name)))
        @@ (Join(tests, module_name \o "Tests.swift")
            :> Written(render_tests_swift(module_name)))

\* Lines 119-122 (and the parent.mkdir of line 21): mkdir(parents = True)
\* of the four subdirectories creates the layer folder and module_dir too.
SeedDirs(layer_folder, module_dir) ==
    { layer_folder, module_dir,
      Join(module_dir, "Interface"), Join(module_dir, "Sources"),
      Join(module_dir, "Testing"), Join(module_dir, "Tests") }

\* What an invocation leaves for its caller.
Outcome(layer, module_name, status, stdout, stderr) ==
    << [layer |-> layer, name |-> module_name, status |-> status,
        stdout |-> stdout, stderr |-> stderr] >>

\* A module directory somebody made before, holding a file edited by hand.
ForeignDirs == {"Features", "Features/Auth"}

ForeignFiles == "Features/Auth/Project.swift" :> "// edited by hand\n"

ScaffoldInit ==
    /\ \/ fs_dirs = {} /\ fs_files = NoFiles
       \/ fs_dirs = ForeignDirs /\ fs_files = ForeignFiles
    /\ sc_result = <<>>
    /\ verbose = FALSE
    /\ stream = "mixed"
    /\ pc = "start"
    /\ log_exists = TRUE
    /\ log = <<>>
    /\ delivered = <<>>
    /\ out = <<>>
    /\ child = "unspawned"
    /\ exit_code = <<>>
    /\ elapsed = <<>>
    /\ ret = <<>>
    /\ broken = ""
    /\ line = ""
    /\ workspace = <<>>
    /\ time_taken = <<>>
    /\ project_names = <<>>
    /\ cached_targets = <<>>
    /\ printed = {}
    /\ collecting_cached = FALSE

(***************************************************************************)
(* Lines 104-132: one invocation of create_module.main().                  *)
(***************************************************************************)
CreateModule ==
    /\ \E layer \in DOMAIN LAYER_TO_FOLDER, name_arg \in NameArgs :
         LET module_name  == Strip(name_arg)
             layer_folder == LAYER_TO_FOLDER[layer]
             module_dir   == Join(layer_folder, module_name)
         IN  IF ~ValidName(module_name)
             THEN \* line 109 raises: the interpreter exits with status 1
                  /\ sc_result' = Outcome(layer, module_name, 1, "",
                                          "invalid module name")
                  /\ UNCHANGED <<fs_dirs, fs_files>>
             ELSE IF ModuleDirExists(module_dir)
             THEN \* lines 114-116
                  /\ sc_result' = Outcome(layer, module_name, 1, "",
                                          "Already exists: " \o module_dir)
                  /\ UNCHANGED <<fs_dirs, fs_files>>
             ELSE \* lines 118-132
                  /\ fs_dirs' = fs_dirs \cup SeedDirs(layer_folder, module_dir)
                  /\ fs_files' = SeedFiles(layer, module_name, module_dir) @@ fs_files
                  /\ sc_result' = Outcome(layer, module_name, 0,
                                          "Created: " \o module_dir, "")
    /\ UNCHANGED reporter_state

ScaffoldNext == CreateModule

ScaffoldSpec == ScaffoldInit /\ [][ScaffoldNext]_vars

(***************************************************************************)
(* Vocabulary of the properties.                                           *)
(***************************************************************************)
\* The writes at which a broken pipe can strike inside the read loop.
LoopWrites == {"graph", "cache", "workspace", "projects", "echo"}

\* Every line written to the log has gone through the whole loop body.
AllLinesProcessed ==
    \/ pc \in {"read", "report", "dump", "unlink"}
    \/ pc = "exit" /\ broken \notin LoopWrites \cup {"start"}

\* How often _safe_print has printed `text`.
TimesPrinted(text) == Cardinality({i \in DOMAIN out : out[i] = Note(text)})

\* The rule of section 4.2 that handles a line, accumulation aside: the
\* workspace, project and total-time patterns end accumulation and are then
\* matched, so the rule they fall under does not depend on the mode.
LineKind(l) ==
    LET s == Strip(l)
    IN  IF s = "" THEN "blank"
        ELSE IF Contains(s, GraphMarker) THEN "graph"
        ELSE IF StartsWith(s, CachePrefix) THEN "cache"
        ELSE IF StartsWith(s, WorkspacePrefix) THEN "workspace"
        ELSE IF StartsWith(s, ProjectPrefix) THEN "projects"
        ELSE IF StartsWith(s, TimePrefix) /\ Len(s) > Len(TimePrefix) THEN "time"
        ELSE "other"

LinesOfKind(k) == {i \in DOMAIN log : LineKind(log[i]) = k}

(***************************************************************************)
(* C1.  The temporary log file is deleted on every exit path of main():    *)
(* whenever the invocation has ended, the file no longer exists.           *)
(* The code removes it only at lines 156 and 170; SystemExit raised by     *)
(* _safe_print and the return of line 86 leave it behind.                  *)
(***************************************************************************)
C1_LogDeletedOnEveryExit == pc = "exit" => ~log_exists

(***************************************************************************)
(* C2.  At every point of the read loop, and after it, the temporary log   *)
(* holds exactly the lines the child has delivered so far, unmodified and  *)
(* in delivery order, whatever their classification and in both modes.     *)
(***************************************************************************)
C2_LogIsTranscript == log = delivered

C2_Witness ==
    /\ pc = "read"
    /\ Len(log) = 3
    /\ {LineKind(log[i]) : i \in DOMAIN log} = {"blank", "cache", "other"}
    /\ Len(cached_targets) > 2

(***************************************************************************)
(* C3 as stated: whenever main() has ended after the child terminated,     *)
(* its exit status is the child's.                                         *)
(***************************************************************************)
C3_ExitCodeIsChildStatus ==
    (pc = "exit" /\ exit_code # <<>>) => ret = exit_code

(***************************************************************************)
(* C3 amended.  The reporter's exit status is the child's exit status      *)
(* whenever no write to standard output raised a broken pipe; when one     *)
(* did, the reporter exits 0 whatever the child's status.                  *)
(***************************************************************************)
C3_ExitCodeUnlessBrokenPipe ==
    pc = "exit" => /\ ret # <<>>
                   /\ broken = "" => ret = exit_code /\ exit_code # <<>>
                   /\ broken # "" => ret = <<0>>

C3_Witness == pc = "exit" /\ broken = "" /\ ret = <<3>> /\ exit_code = <<3>>

(***************************************************************************)
(* C4.  Each of the notifications 'graph', 'cache' and 'projects' is       *)
(* printed at most once per invocation, however often its line recurs.     *)
(***************************************************************************)
C4_PhaseNotifiedAtMostOnce ==
    \A text \in {GraphNote, CacheNote, ProjectsNote} : TimesPrinted(text) <= 1

C4_Witness ==
    /\ pc = "read"
    /\ Cardinality(LinesOfKind("graph")) >= 2
    /\ Cardinality(LinesOfKind("projects")) >= 2
    /\ TimesPrinted(GraphNote) = 1
    /\ TimesPrinted(ProjectsNote) = 1

(***************************************************************************)
(* C5.  When a write to standard output fails with a broken pipe, be it a  *)
(* condensed notification or a verbose echo, the reporter terminates the   *)
(* child (it is not left running), reads no further line and exits 0.      *)
(* The code terminates the child only on the verbose path (line 85).       *)
(***************************************************************************)
C5_BrokenPipeTerminatesChild ==
    broken # "" => /\ pc = "exit"
                   /\ ret = <<0>>
                   /\ child # "running"

(***************************************************************************)
(* C6.  If the child exits with a non-zero status n (and standard output   *)
(* stays writable), the reporter prints 'failed (exit n)', then writes the *)
(* whole content of the temporary log, then removes the log and returns    *)
(* n.  In every run the dump comes right after the 'failed' line and is    *)
(* the complete transcript.                                                *)
(***************************************************************************)
C6_FailedThenDump ==
    /\ \A i \in DOMAIN out :
         out[i].kind = "dump" =>
            /\ i > 1
            /\ exit_code # <<>>
            /\ out[i - 1] = Note(FailedNote(exit_code[1]))
            /\ out[i].text = Concat(delivered)
            /\ \A j \in 1..(i - 1) : out[j].kind # "dump"
    /\ (pc = "exit" /\ broken = "" /\ exit_code # <<0>>) =>
            /\ Len(out) >= 2
            /\ out[Len(out) - 1] = Note(FailedNote(exit_code[1]))
            /\ out[Len(out)] = Dump(Concat(delivered))
            /\ ~log_exists
            /\ ret = exit_code
    /\ (pc = "exit" /\ broken = "" /\ exit_code = <<3>>) =>
            out[Len(out) - 1].text = "tuist generate: failed (exit 3)"

C6_Witness ==
    /\ pc = "exit"
    /\ exit_code = <<3>>
    /\ ret = <<3>>
    /\ ~log_exists
    /\ Len(log) = 2
    /\ out[Len(out)] =
         Dump("Generating project Core\n" \o "  Resolving dependencies\n")
    /\ out[Len(out) - 1] = Note("tuist generate: failed (exit 3)")

(***************************************************************************)
(* C7 as stated: in verbose mode nothing is printed by _safe_print and     *)
(* standard output holds exactly the lines received, each echoed once.     *)
(***************************************************************************)
\* The number of received lines that have gone through the echo of line 81.
EchoedCount ==
    IF pc = "echo" \/ broken = "echo" THEN Len(delivered) - 1 ELSE Len(delivered)

C7_VerboseOnlyEchoes ==
    verbose => out = [i \in 1..EchoedCount |-> Echo(delivered[i])]

(***************************************************************************)
(* C7 amended.  In verbose mode no 'start', phase or 'workspace'           *)
(* notification is printed, and the read loop echoes every line received   *)
(* from the child unmodified, once, in the order received.  The terminal   *)
(* line is still printed after the loop: 'done' on status 0, and on a      *)
(* non-zero status 'failed (exit n)' followed by the log dump, which       *)
(* writes the transcript a second time.                                    *)
(***************************************************************************)
C7_VerboseEchoesThenTerminalLine ==
    verbose =>
       /\ Len(out) >= EchoedCount
       /\ SubSeq(out, 1, EchoedCount) = [i \in 1..EchoedCount |-> Echo(delivered[i])]
       /\ LET rest == SubSeq(out, EchoedCount + 1, Len(out))
          IN  /\ rest # <<>> => pc \in {"dump", "unlink", "exit"}
              /\ \/ rest = <<>>
                 \/ exit_code = <<0>> /\ rest = <<Note(DoneNote)>>
                 \/ exit_code # <<0>> /\ rest = <<Note(FailedNote(exit_code[1]))>>
                 \/ exit_code # <<0>> /\ rest = <<Note(FailedNote(exit_code[1])),
                                                  Dump(Concat(delivered))>>

C7_Witness ==
    /\ verbose
    /\ pc = "exit"
    /\ broken = ""
    /\ exit_code = <<0>>
    /\ Len(out) = 4
    /\ out[1] = Echo("Loading and constructing the graph\n")
    /\ out[2] = Echo("Generating workspace MyApp\n")
    /\ out[3] = Echo("Generating project Core\n")
    /\ out[4] = Note("tuist generate: done (0.5ms) [projects=1] -> MyApp")

(***************************************************************************)
(* C8 as stated: after a cache trigger line the names after its colon and  *)
(* then every whitespace-delimited token of each later non-terminating     *)
(* line are appended in stream order, with trailing commas stripped.       *)
(* Graph lines and further trigger lines are read as the classifier's      *)
(* priority order has them: the former skipped, the latter a new trigger.  *)
(***************************************************************************)
TrailingCommasStripped(s) ==
    LET toks == Split(s) IN [i \in 1..Len(toks) |-> RStripChars(toks[i], {","})]

RECURSIVE StatedFold(_, _)
StatedFold(ls, n) ==
    IF n = 0 THEN [collecting |-> FALSE, targets |-> <<>>]
    ELSE LET prev == StatedFold(ls, n - 1)
             s    == Strip(ls[n])
         IN  IF s = "" THEN [prev EXCEPT !.collecting = FALSE]
             ELSE IF Contains(s, GraphMarker) THEN prev
             ELSE IF StartsWith(s, CachePrefix)
             THEN [collecting |-> TRUE,
                   targets |-> prev.targets \o TrailingCommasStripped(AfterColon(s))]
             ELSE IF prev.collecting /\ EndsAccumulation(s)
             THEN [prev EXCEPT !.collecting = FALSE]
             ELSE IF prev.collecting
             THEN [prev EXCEPT !.targets = @ \o TrailingCommasStripped(s)]
             ELSE prev

C8_EveryTokenAppended ==
    AllLinesProcessed => cached_targets = StatedFold(log, Len(log)).targets

(***************************************************************************)
(* C8 amended.  After a cache trigger line the names after its colon and   *)
(* then the whitespace-delimited tokens of each later non-terminating line *)
(* are appended in stream order, each with its leading and trailing commas *)
(* stripped, and a token of commas only is dropped; graph lines and        *)
(* further trigger lines are handled by their own rules, which come first. *)
(* The trigger '... targets: A, B', then 'C D,', then a blank line yield   *)
(* exactly [A, B, C, D].                                                   *)
(***************************************************************************)
RECURSIVE AccumulatedFold(_, _)
AccumulatedFold(ls, n) ==
    IF n = 0 THEN [collecting |-> FALSE, targets |-> <<>>]
    ELSE LET prev == AccumulatedFold(ls, n - 1)
             s    == Strip(ls[n])
         IN  IF s = "" THEN [prev EXCEPT !.collecting = FALSE]
             ELSE IF Contains(s, GraphMarker) THEN prev
             ELSE IF StartsWith(s, CachePrefix)
             THEN [collecting |-> TRUE,
                   targets |-> prev.targets \o TargetNames(AfterColon(s))]
             ELSE IF prev.collecting /\ EndsAccumulation(s)
             THEN [prev EXCEPT !.collecting = FALSE]
             ELSE IF prev.collecting
             THEN [prev EXCEPT !.targets = @ \o TargetNames(s)]
             ELSE prev

CacheExample ==
    << "Using cache binaries for the following targets: A, B\n", "C D,\n", "\n" >>

C8_CachedTargetAccumulation ==
    AllLinesProcessed =>
       /\ cached_targets = AccumulatedFold(log, Len(log)).targets
       /\ (Len(log) >= 3 /\ SubSeq(log, 1, 3) = CacheExample) =>
             /\ Len(cached_targets) >= 4
             /\ SubSeq(cached_targets, 1, 4) = <<"A", "B", "C", "D">>
             /\ Len(log) = 3 => cached_targets = <<"A", "B", "C", "D">>

C8_Witness ==
    /\ pc = "read"
    /\ log = CacheExample
    /\ cached_targets = <<"A", "B", "C", "D">>
    /\ ~collecting_cached

(***************************************************************************)
(* C9.  On exit status 0 (standard output writable) the last thing printed *)
(* is the one 'done' line, which shows: the value of the last total-time   *)
(* line if one was classified, else the formatted measured time;           *)
(* 'projects=N' iff N > 0, N the number of project lines classified;       *)
(* 'cached=M' iff M > 0, M the length of the cached-target list; and the   *)
(* name of the last workspace line iff one was classified; in any order    *)
(* of the marker lines.                                                    *)
(***************************************************************************)
DonePrefix == Tag \o "done ("

IsDoneLine(e) == e.kind = "note" /\ StartsWith(e.text, DonePrefix)

Last(S) == CHOOSE i \in S : \A j \in S : j <= i

CapturedAfter(l, prefix) ==
    LET s == Strip(l) IN Strip(SubSeq(s, Len(prefix) + 1, Len(s)))

ExpectedDone ==
    LET times    == LinesOfKind("time")
        spaces   == LinesOfKind("workspace")
        N        == Cardinality(LinesOfKind("projects"))
        M        == Len(cached_targets)
        duration == IF times # {} THEN CapturedAfter(log[Last(times)], TimePrefix)
                    ELSE format_duration(elapsed[1])
        counts   == IF N > 0 /\ M > 0
                    THEN " [projects=" \o ToString(N) \o ", cached=" \o ToString(M) \o "]"
                    ELSE IF N > 0 THEN " [projects=" \o ToString(N) \o "]"
                    ELSE IF M > 0 THEN " [cached=" \o ToString(M) \o "]"
                    ELSE ""
        name     == IF spaces # {}
                    THEN " -> " \o CapturedAfter(log[Last(spaces)], WorkspacePrefix)
                    ELSE ""
    IN  DonePrefix \o duration \o ")" \o counts \o name

SummaryExample ==
    << "Generating workspace MyApp\n", "Generating project Core\n",
       "Generating project Core\n", "Total time taken: 4.2s\n" >>

C9_DoneSummary ==
    /\ \A i \in DOMAIN out :
          IsDoneLine(out[i]) => /\ i = Len(out)
                                /\ exit_code = <<0>>
                                /\ out[i].text = ExpectedDone
    /\ (pc \in {"unlink", "exit"} /\ broken = "" /\ exit_code = <<0>>) =>
          /\ Len(out) >= 1
          /\ IsDoneLine(out[Len(out)])
          /\ log = SummaryExample =>
                out[Len(out)].text = "tuist generate: done (4.2s) [projects=2] -> MyApp"

C9_Witness ==
    /\ pc = "exit"
    /\ ~verbose
    /\ log = << "Total time taken: 4.2s\n", "Generating project Core\n",
                "Generating workspace MyApp\n", "Generating project Core\n" >>
    /\ out[Len(out)] = Note("tuist generate: done (4.2s) [projects=2] -> MyApp")

(***************************************************************************)
(* C10.  In condensed mode, when the child exits 0 and none of its lines   *)
(* is recognised (only blank and unrecognised lines, any number of them),  *)
(* the output is exactly the 'start' line followed by the 'done' line,     *)
(* and 'done' shows the measured elapsed time and no extras (standard      *)
(* output writable).                                                       *)
(***************************************************************************)
MeasuredText ==
    IF elapsed = <<500>> THEN "0.5ms"
    ELSE IF elapsed = <<1234567>> THEN "1.23s"
    ELSE IF elapsed = <<12345678>> THEN "12.3s"
    ELSE format_duration(elapsed[1])

C10_StartAndDoneOnly ==
    ( /\ ~verbose
      /\ pc = "exit"
      /\ broken = ""
      /\ exit_code = <<0>>
      /\ \A i \in DOMAIN log : LineKind(log[i]) \in {"blank", "other"} )
    => out = << Note("tuist generate: start"),
                Note("tuist generate: done (" \o MeasuredText \o ")") >>

C10_Witness ==
    /\ ~verbose
    /\ pc = "exit"
    /\ exit_code = <<0>>
    /\ elapsed = <<1234567>>
    /\ log = << "  Resolving dependencies\n", "\n", "C D,\n" >>
    /\ out = << Note("tuist generate: start"), Note("tuist generate: done (1.23s)") >>

(***************************************************************************)
(* C11.  Classification follows the fixed priority graph > cache trigger   *)
(* > cache accumulation > workspace > projects > total time >              *)
(* unrecognised: a non-blank line is handled by the first rule it matches  *)
(* and by no later one.  A line with the graph marker changes no field     *)
(* but the notified set, whatever else it matches and whether or not       *)
(* accumulation is active; a trigger line adds only the names after its    *)
(* colon; a line reaches the workspace, project and total-time rules only  *)
(* when no earlier rule took it, and then exactly one of them acts.        *)
(***************************************************************************)
\* The first rule, in the priority order, that the stripped line matches.
FirstRule(s, collecting) ==
    IF Contains(s, GraphMarker) THEN "graph"
    ELSE IF StartsWith(s, CachePrefix) THEN "cache"
    ELSE IF collecting /\ ~EndsAccumulation(s) THEN "accumulate"
    ELSE IF MatchAfter(s, WorkspacePrefix) # <<>> THEN "workspace"
    ELSE IF MatchAfter(s, ProjectPrefix) # <<>> THEN "projects"
    ELSE IF MatchAfterSpaces(s, TimePrefix) # <<>> THEN "time"
    ELSE "other"

\* The loop body ran to its end: no print raised.
Handled == pc' = "read"

C11_ClassifyStep ==
    LET s    == Strip(line)
        rule == FirstRule(s, collecting_cached)
    IN  (pc = "classify" /\ s # "" /\ Handled) =>
          /\ rule = "graph" =>
                /\ UNCHANGED <<workspace, time_taken, project_names, cached_targets,
                               collecting_cached>>
                /\ printed' \subseteq printed \cup {"graph"}
          /\ rule = "cache" =>
                /\ UNCHANGED <<workspace, time_taken, project_names>>
                /\ collecting_cached'
                /\ cached_targets' = cached_targets \o TargetNames(AfterColon(s))
                /\ printed' \subseteq printed \cup {"cache"}
          /\ rule = "accumulate" =>
                /\ UNCHANGED <<workspace, time_taken, project_names, printed,
                               collecting_cached>>
                /\ cached_targets' = cached_targets \o TargetNames(s)
          /\ rule = "workspace" =>
                /\ UNCHANGED <<time_taken, project_names, cached_targets, printed>>
                /\ workspace' # <<>>
          /\ rule = "projects" =>
                /\ UNCHANGED <<workspace, time_taken, cached_targets>>
                /\ Len(project_names') = Len(project_names) + 1
                /\ printed' \subseteq printed \cup {"projects"}
          /\ rule = "time" =>
                /\ UNCHANGED <<workspace, project_names, cached_targets, printed>>
                /\ time_taken' # <<>>
          /\ rule = "other" =>
                UNCHANGED <<workspace, time_taken, project_names, cached_targets,
                            printed>>
          /\ (line = "Using cache binaries for the following targets: Loading and constructing the graph\n"
              \/ line = "Generating project Loading and constructing the graph\n") =>
                /\ UNCHANGED <<workspace, time_taken, project_names, cached_targets,
                               collecting_cached>>
                /\ \A i \in DOMAIN out' : out'[i].kind = "note" =>
                      out'[i].text \notin {CacheNote, ProjectsNote}
                         \/ (i \in DOMAIN out /\ out[i] = out'[i])

C11_FixedPriority == [][C11_ClassifyStep]_vars

\* A graph line that is also a project announcement has been processed while
\* accumulation was active, and a graph line that is also a trigger while
\* it was not.
C11_Witness ==
    /\ pc = "read"
    /\ ~verbose
    /\ log = << "Using cache binaries for the following targets: Loading and constructing the graph\n",
                "Using cache binaries for the following targets: A, B\n",
                "Generating project Loading and constructing the graph\n" >>
    /\ cached_targets = <<"A", "B">>
    /\ collecting_cached
    /\ project_names = <<>>
    /\ printed = {"graph", "cache"}

(***************************************************************************)
(* C12.  Scaffolder: when the target module directory already exists (in   *)
(* particular on a second invocation with the same layer and name),        *)
(* main() ends with a non-zero status and creates, writes or modifies no   *)
(* directory or file; for a name that passes the identifier validation of  *)
(* line 109, which comes first, the failure reported is 'Already exists'   *)
(* with status 1 and nothing on standard output.                           *)
(***************************************************************************)
C12_Invocation ==
    LET r   == sc_result'[1]
        dir == Join(LAYER_TO_FOLDER[r.layer], r.name)
    IN  PathExists(dir) =>
           /\ fs_dirs' = fs_dirs
           /\ fs_files' = fs_files
           /\ r.status # 0
           /\ ValidName(r.name) => /\ r.status = 1
                                   /\ r.stderr = "Already exists: " \o dir
                                   /\ r.stdout = ""

C12_ExistingModuleUntouched == [][C12_Invocation]_vars

\* The second of two invocations with --layer core --name " Net ": the files
\* of the first are in place and the failure is reported.
C12_Witness ==
    /\ sc_result = Outcome("core", "Net", 1, "", "Already exists: Core/Net")
    /\ "Core/Net/Tests" \in fs_dirs
    /\ "Core/Net/Interface/NetService.swift" \in DOMAIN fs_files
    /\ fs_files["Core/Net/Interface/NetService.swift"] =
          "public protocol NetService {\n    func ping() -> String\n}\n"
    /\ "Features/Auth/Project.swift" \in DOMAIN fs_files
    /\ fs_files["Features/Auth/Project.swift"] = "// edited by hand\n"

(***************************************************************************)
(* C13 as stated.  After a line has been processed, accumulation mode is   *)
(* active if and only if a line starting with the cache trigger has been   *)
(* processed and no blank line and no line beginning 'Generating           *)
(* workspace ', 'Generating project ' or 'Total time taken:' has been      *)
(* processed since; the line that ends accumulation adds no token.         *)
(***************************************************************************)
IsBlank(l) == Strip(l) = ""

BeginsAnnouncement(l) ==
    \/ StartsWith(Strip(l), "Generating workspace ")
    \/ StartsWith(Strip(l), "Generating project ")
    \/ StartsWith(Strip(l), "Total time taken:")

StartsTrigger(l) == StartsWith(Strip(l), "Using cache binaries for the following targets:")

StatedActive(ls) ==
    \E t \in DOMAIN ls :
       /\ StartsTrigger(ls[t])
       /\ \A j \in (t + 1)..Len(ls) : ~IsBlank(ls[j]) /\ ~BeginsAnnouncement(ls[j])

\* The step that processes `line` to the end (no print of it raised).
LineProcessed == pc = "classify" /\ pc' = "read"

EnderAddsNoToken ==
    (collecting_cached /\ ~collecting_cached') => cached_targets' = cached_targets

C13_StatedStep ==
    LineProcessed => /\ collecting_cached' = StatedActive(log)
                     /\ EnderAddsNoToken

C13_AccumulationIffStated == [][C13_StatedStep]_vars

(***************************************************************************)
(* C13 amended.  A line that contains 'Loading and constructing the graph' *)
(* is handled by the graph rule alone: it neither starts nor ends          *)
(* accumulation, whatever it begins with.  After a line has been processed *)
(* to the end, accumulation mode is active if and only if a cache trigger  *)
(* line without the graph marker has been processed and no blank line and  *)
(* no line without the graph marker beginning a workspace-generation,      *)
(* project-generation or total-time announcement has been processed since  *)
(* the most recent such trigger; the line that ends accumulation adds no   *)
(* token to the cached-target list.                                        *)
(***************************************************************************)
HasGraphMarker(l) == Contains(Strip(l), "Loading and constructing the graph")

Active(ls) ==
    \E t \in DOMAIN ls :
       /\ StartsTrigger(ls[t]) /\ ~HasGraphMarker(ls[t])
       /\ \A j \in (t + 1)..Len(ls) :
             /\ ~IsBlank(ls[j])
             /\ ~(BeginsAnnouncement(ls[j]) /\ ~HasGraphMarker(ls[j]))

C13_Step ==
    LineProcessed => /\ collecting_cached' = Active(log)
                     /\ EnderAddsNoToken

C13_AccumulationIff == [][C13_Step]_vars

\* A trigger, a project announcement carrying the graph marker (accumulation
\* goes on), then a total-time line that ends it and adds nothing.
C13_Witness ==
    /\ pc = "read"
    /\ log = << "Using cache binaries for the following targets: A, B\n",
                "Generating project Loading and constructing the graph\n",
                "Total time taken: 4.2s\n" >>
    /\ ~collecting_cached
    /\ cached_targets = <<"A", "B">>
    /\ time_taken = <<"4.2s">>
    /\ project_names = <<>>

(***************************************************************************)
(* C14.  Every line is appended to the temporary log before anything else  *)
(* is done with it: the step that takes a line from the child writes it to *)
(* the log and touches neither the output nor the parse state, and echo,   *)
(* classification, state update and notification happen only while the     *)
(* line at hand is the last line of the log.  In condensed mode a phase    *)
(* notification is printed (or its print raises) in the very step that     *)
(* classifies its triggering line, before the next line is read; no phase  *)
(* notification is printed at any other time.                              *)
(***************************************************************************)
PhaseNoteOf(l) ==
    LET k == LineKind(l)
    IN  IF k = "graph" THEN <<GraphNote>>
        ELSE IF k = "cache" THEN <<CacheNote>>
        ELSE IF k = "projects" THEN <<ProjectsNote>>
        ELSE IF k = "workspace" THEN <<WorkspaceNote(CapturedAfter(l, WorkspacePrefix))>>
        ELSE <<>>

IsPhaseNote(e) ==
    /\ e.kind = "note"
    /\ \/ e.text \in {GraphNote, CacheNote, ProjectsNote}
       \/ StartsWith(e.text, Tag \o "workspace ")

\* The line at hand calls for a notification in condensed mode.
NotificationDue ==
    /\ ~verbose
    /\ \/ LineKind(line) \in {"graph", "cache", "projects"} /\ LineKind(line) \notin printed
       \/ LineKind(line) = "workspace"

C14_Step ==
    /\ delivered' # delivered =>
          /\ log' = Append(log, delivered'[Len(delivered')])
          /\ line' = delivered'[Len(delivered')]
          /\ out' = out
          /\ UNCHANGED parse_state
    /\ pc \in {"echo", "classify"} =>
          /\ Len(log) = Len(delivered)
          /\ log[Len(log)] = line
    /\ (parse_state' # parse_state
        \/ (Len(out') > Len(out) /\ out'[Len(out')].kind = "echo")) =>
          /\ pc \in {"echo", "classify"}
          /\ log' = log
    /\ (pc = "classify" /\ NotificationDue) =>
          /\ delivered' = delivered
          /\ \/ out' = Append(out, Note(PhaseNoteOf(line)[1]))
             \/ out' = out /\ pc' = "exit" /\ broken' = LineKind(line)
    /\ (Len(out') > Len(out) /\ IsPhaseNote(out'[Len(out')])) =>
          /\ pc = "classify"
          /\ child = "running"
          /\ PhaseNoteOf(line) = <<out'[Len(out')].text>>

C14_LogFirstNotifyAtOnce == [][C14_Step]_vars

\* Two lines in, the child still running, both notifications already out.
C14_Witness ==
    /\ ~verbose
    /\ pc = "read"
    /\ child = "running"
    /\ log = << "Generating project Core\n", "Generating workspace  Other App\n" >>
    /\ out = << Note(StartNote), Note(ProjectsNote), Note(WorkspaceNote("Other App")) >>

(***************************************************************************)
(* C15.  The step that classifies a workspace line ends accumulation,      *)
(* replaces the recorded workspace name by the name the line carries       *)
(* (stripped) and leaves the other data alone; in condensed mode it prints *)
(* one notification quoting that name, unless that print raises, and in    *)
(* verbose mode none.  The number of workspace notifications printed grows *)
(* by exactly one with every workspace line so processed and with no other *)
(* step, so in condensed mode it equals the number of workspace lines      *)
(* classified, repeated names included.                                    *)
(***************************************************************************)
IsWorkspaceNote(e) == e.kind = "note" /\ StartsWith(e.text, Tag \o "workspace ")

WorkspaceNotes(o) == Cardinality({i \in DOMAIN o : IsWorkspaceNote(o[i])})

WorkspaceLineAtHand == pc = "classify" /\ LineKind(line) = "workspace"

C15_Step ==
    /\ WorkspaceLineAtHand =>
          LET name == CapturedAfter(line, "Generating workspace ")
          IN  /\ collecting_cached' = FALSE
              /\ workspace' = <<name>>
              /\ UNCHANGED <<time_taken, project_names, cached_targets, printed>>
              /\ IF verbose
                 THEN out' = out /\ pc' = "read"
                 ELSE \/ out' = Append(out, Note(Tag \o "workspace " \o name)) /\ pc' = "read"
                      \/ out' = out /\ pc' = "exit" /\ broken' = "workspace"
    /\ WorkspaceNotes(out') =
          WorkspaceNotes(out)
          + (IF WorkspaceLineAtHand /\ ~verbose /\ pc' = "read" THEN 1 ELSE 0)

C15_WorkspaceEveryTime == [][C15_Step]_vars

\* Three workspace lines, the last two alike: three notifications, and the
\* name recorded is that of the last line.
C15_Witness ==
    /\ ~verbose
    /\ pc = "read"
    /\ log = << "Generating workspace  Other App\n",
                "Generating workspace MyApp\n",
                "Generating workspace MyApp\n" >>
    /\ out = << Note(StartNote), Note(WorkspaceNote("Other App")),
                Note(WorkspaceNote("MyApp")), Note(WorkspaceNote("MyApp")) >>
    /\ workspace = <<"MyApp">>
    /\ WorkspaceNotes(out) = Cardinality(LinesOfKind("workspace"))

(***************************************************************************)
(* C16.  A non-blank line that matches no phase pattern and arrives while  *)
(* accumulation mode is inactive changes no field of the parse state       *)
(* (notified set, accumulation mode, workspace name, project list,         *)
(* cached-target list, total-time value) and prints nothing; it stays the  *)
(* last line of the log, nothing fails, and the loop goes on to read the   *)
(* next line.                                                              *)
(***************************************************************************)
InertLineAtHand ==
    /\ pc = "classify"
    /\ ~IsBlank(line)
    /\ LineKind(line) = "other"
    /\ ~collecting_cached

C16_Step ==
    InertLineAtHand =>
       /\ UNCHANGED parse_state
       /\ out' = out
       /\ log' = log /\ log[Len(log)] = line
       /\ UNCHANGED <<ret, broken, child, exit_code>>
       /\ pc' = "read"

C16_UnrecognizedLineInert == [][C16_Step]_vars

\* Two unrecognized lines have gone by in condensed mode.
C16_Witness ==
    /\ ~verbose
    /\ pc = "read"
    /\ child = "running"
    /\ log = << "  Resolving dependencies\n", "C D,\n" >>
    /\ out = << Note(StartNote) >>
    /\ printed = {}
    /\ ~collecting_cached
    /\ cached_targets = <<>>
    /\ workspace = <<>> /\ project_names = <<>> /\ time_taken = <<>>

(***************************************************************************)
(* C17.  The cached-target list is append-only: every step leaves the list *)
(* it found as a prefix of the list it leaves.  The step that classifies a *)
(* cache trigger line after an earlier one has been processed prints       *)
(* nothing and leaves the notified set alone, sets accumulation mode, and  *)
(* appends the names after the line's colon to the end of the list: for    *)
(* '... targets: A, B' the list grows by A, B.                             *)
(***************************************************************************)
IsPrefixOf(a, b) == Len(a) <= Len(b) /\ SubSeq(b, 1, Len(a)) = a

LaterTriggerAtHand ==
    /\ pc = "classify"
    /\ LineKind(line) = "cache"
    /\ \E i \in 1..(Len(log) - 1) : LineKind(log[i]) = "cache"

C17_Step ==
    /\ IsPrefixOf(cached_targets, cached_targets')
    /\ LaterTriggerAtHand =>
          /\ out' = out
          /\ printed' = printed
          /\ pc' = "read"
          /\ collecting_cached' = TRUE
          /\ cached_targets' = cached_targets \o TargetNames(AfterColon(Strip(line)))
          /\ line = "Using cache binaries for the following targets: A, B\n" =>
                cached_targets' = cached_targets \o <<"A", "B">>

C17_LaterTriggerSilentAppend == [][C17_Step]_vars

\* A trigger, a blank line that ends accumulation, and the trigger again:
\* one notification, accumulation active, and the names of both in order.
C17_Witness ==
    /\ ~verbose
    /\ pc = "read"
    /\ log = << "Using cache binaries for the following targets: A, B\n",
                "\n",
                "Using cache binaries for the following targets: A, B\n" >>
    /\ out = << Note(StartNote), Note(CacheNote) >>
    /\ collecting_cached
    /\ cached_targets = <<"A", "B", "A", "B">>

(***************************************************************************)
(* C18.  The verbosity flag does not influence data accumulation.  The     *)
(* accumulation mode, workspace name, project list, cached-target list and *)
(* total-time value change only in the step that classifies a line, and    *)
(* when that step processes the line to the end they become DataStep of    *)
(* their old values and the line, a function in which the flag, the output *)
(* and the notified set do not occur.  Both modes start from the same      *)
(* values and take the same streams, so after each line the five fields    *)
(* are the same in verbose and in condensed mode.                          *)
(***************************************************************************)
Data ==
    [collecting |-> collecting_cached, workspace |-> workspace,
     projects |-> project_names, targets |-> cached_targets, time |-> time_taken]

DataStep(d, l) ==
    LET s == Strip(l)
        e == [d EXCEPT !.collecting = FALSE]
    IN  IF s = "" THEN e
        ELSE IF Contains(s, "Loading and constructing the graph") THEN d
        ELSE IF StartsWith(s, "Using cache binaries for the following targets:")
        THEN [d EXCEPT !.collecting = TRUE,
                       !.targets = @ \o TargetNames(AfterColon(s))]
        ELSE IF d.collecting /\ ~BeginsAnnouncement(l)
        THEN [d EXCEPT !.targets = @ \o TargetNames(s)]
        ELSE IF LineKind(l) = "workspace"
        THEN [e EXCEPT !.workspace = <<CapturedAfter(l, "Generating workspace ")>>]
        ELSE IF LineKind(l) = "projects"
        THEN [e EXCEPT !.projects = Append(@, CapturedAfter(l, "Generating project "))]
        ELSE IF LineKind(l) = "time"
        THEN [e EXCEPT !.time = <<CapturedAfter(l, "Total time taken:")>>]
        ELSE e

C18_Step ==
    /\ LineProcessed => Data' = DataStep(Data, line)
    /\ pc # "classify" => Data' = Data

C18_VerbosityLeavesDataAlone == [][C18_Step]_vars

\* A verbose run that has collected every kind of data and notified nothing.
C18_Witness ==
    /\ verbose
    /\ pc = "read"
    /\ log = << "Using cache binaries for the following targets: A, B\n",
                "Generating project Core\n",
                "Total time taken: 4.2s\n" >>
    /\ Data = [collecting |-> FALSE, workspace |-> <<>>, projects |-> <<"Core">>,
               targets |-> <<"A", "B">>, time |-> <<"4.2s">>]
    /\ printed = {}
    /\ out = [i \in 1..3 |-> Echo(log[i])]

(***************************************************************************)
(* C19.  The two terminal notifications are mutually exclusive and follow  *)
(* the stream.  A 'done' or 'failed (exit n)' line is printed only by a    *)
(* step taken after the child's stream has ended and its status has been   *)
(* obtained, and only when no terminal line has been printed before; the   *)
(* line is 'done' only when the status is 0 and 'failed (exit n)' only     *)
(* when the status n is not 0.  Output is never taken back and no line is  *)
(* read once the status is known, so at most one of the two is printed in  *)
(* an invocation.                                                          *)
(***************************************************************************)
IsFailedLine(e) == e.kind = "note" /\ StartsWith(e.text, Tag \o "failed (exit ")

IsTerminalLine(e) == IsDoneLine(e) \/ IsFailedLine(e)

TerminalLines(o) == {i \in DOMAIN o : IsTerminalLine(o[i])}

C19_Step ==
    /\ IsPrefixOf(out, out')
    /\ exit_code # <<>> => delivered' = delivered /\ exit_code' = exit_code
    /\ TerminalLines(out') # TerminalLines(out) =>
          /\ TerminalLines(out) = {}
          /\ out' = Append(out, out'[Len(out')])
          /\ pc = "report"
          /\ child = "exited"
          /\ exit_code # <<>>
          /\ IsDoneLine(out'[Len(out')]) => exit_code[1] = 0
          /\ IsFailedLine(out'[Len(out')]) =>
                /\ exit_code[1] # 0
                /\ out'[Len(out')].text = Tag \o "failed (exit " \o ToString(exit_code[1]) \o ")"

C19_OneTerminalLineAfterStream == [][C19_Step]_vars

\* A verbose run whose child ended with status 0 after two lines: the echoes,
\* then the single terminal line, which is 'done'.
C19_Witness ==
    /\ verbose
    /\ pc = "exit"
    /\ child = "exited"
    /\ exit_code = <<0>>
    /\ delivered = << "Loading and constructing the graph\n", "\n" >>
    /\ Len(out) = 3
    /\ TerminalLines(out) = {3}
    /\ IsDoneLine(out[3]) /\ ~IsFailedLine(out[3])

(***************************************************************************)
(* C20.  In every reachable state no element of the cached-target list is  *)
(* the empty string and none begins or ends with a comma; a token made of  *)
(* commas only is dropped: once the trigger '... targets: A, B' and the    *)
(* line ',x, ,' have been processed the list is exactly [A, B, x].         *)
(***************************************************************************)
FirstChar(t) == SubSeq(t, 1, 1)

LastChar(t) == SubSeq(t, Len(t), Len(t))

CommaTokensExample ==
    << "Using cache binaries for the following targets: A, B\n", ",x, ,\n" >>

C20_CachedTargetsBare ==
    /\ \A i \in DOMAIN cached_targets :
          /\ cached_targets[i] # ""
          /\ FirstChar(cached_targets[i]) # ","
          /\ LastChar(cached_targets[i]) # ","
    /\ (pc = "read" /\ log = CommaTokensExample) => cached_targets = <<"A", "B", "x">>

\* The comma-laden line inside a block, followed by a plain continuation.
C20_Witness ==
    /\ pc = "read"
    /\ log = CommaTokensExample \o << "C D,\n" >>
    /\ collecting_cached
    /\ cached_targets = <<"A", "B", "x", "C", "D">>

====
